---- MODULE Spec2Model ----
(***************************************************************************)
(* A model of the APC Microlink serial engine (src/src/apcserial.py) and   *)
(* of its checksum (src/src/checksum/fletcherNbit.py).                     *)
(*                                                                         *)
(* Spec      the poll loop ApcComm.run interleaved with callers of         *)
(*           ApcComm.send_apc_msg, the CLI's exit and the serial line.     *)
(* FairSpec  Spec with every thread scheduled (weak fairness).             *)
(* CodecSpec the checksum and the frame codec applied to bounded inputs.   *)
(*                                                                         *)
(* Bytes are naturals 0..255, byte strings are sequences of bytes.         *)
(* 0x7e = 126, 0x7f = 127, 0xF7 = 247, 0xFD = 253, 0xFE = 254.             *)
(***************************************************************************)
EXTENDS Integers, Sequences, FiniteSets, TLC

VARIABLES
    state,          \* ApcComm.state
    prev_state,     \* ApcComm.prev_state
    next_apc_msg,   \* ApcComm.next_apc_msg: [obj, bytes]; obj is the identity of the object
    running,        \* ApcComm.running
    ups_state,      \* ApcComm.ups_state: a function from field names to values
    pc_run,         \* where the thread of ApcComm.run stands
    rcv_data,       \* run's local rcv_data
    result,         \* the value handle_apc_msg returns to run
    reply,          \* handle_apc_msg's local rcv_data (the reply to the challenge)
    cpc,            \* where each caller of send_apc_msg stands
    cret,           \* what send_apc_msg returned to each caller ("none" while it runs)
    line,           \* the serial line: "up", "down" (every read times out), or "full"
                    \* (up, the device sending every message of DeviceResponses)
    wire,           \* the last write to the transport: [bytes, at (state), obj]
    io,             \* history: how the poll loop's writes and reads followed each other
    sent,           \* history: the caller's object was written since its call
    allEmpty,       \* history: every read so far returned no bytes
    comm_written,   \* history: the cycle that just ended assigned ups_state['comm_state']
    f8,             \* a Fletcher object (the checksum test's f8)
    tc              \* the codec harness: the operation applied and what it gave

vars == <<state, prev_state, next_apc_msg, running, ups_state, pc_run, rcv_data,
          result, reply, cpc, cret, line, wire, io, sent, allEmpty,
          comm_written, f8, tc>>

engineVars == <<state, prev_state, next_apc_msg, running, ups_state, pc_run, rcv_data,
                result, reply, cpc, cret, line, wire, io, sent, allEmpty,
                comm_written>>

codecVars == <<f8, tc>>

----------------------------------------------------------------------------
(* Python's sequence operations *)

Min(a, b) == IF a < b THEN a ELSE b

Max(a, b) == IF a > b THEN a ELSE b

\* an index of a slice, as Python clamps it for a sequence of length n
SliceIndex(i, n) == IF i < 0 THEN Max(n + i, 0) ELSE Min(i, n)

\* s[a:b]
Slice(s, a, b) ==
    LET lo == SliceIndex(a, Len(s))
        hi == SliceIndex(b, Len(s))
    IN  IF lo >= hi THEN <<>> ELSE SubSeq(s, lo + 1, hi)

\* s[a:]
SliceFrom(s, a) == Slice(s, a, Len(s))

\* int.from_bytes(s, byteorder='big', signed=False)
RECURSIVE FromBytesBig(_)
FromBytesBig(s) ==
    IF s = <<>> THEN 0
    ELSE FromBytesBig(SubSeq(s, 1, Len(s) - 1)) * 256 + s[Len(s)]

\* n.to_bytes(2, byteorder='big', signed=False), for n < 65536
ToBytes2(n) == <<n \div 256, n % 256>>

----------------------------------------------------------------------------
(* checksum/fletcherNbit.py *)

modulus == 255

FletcherNew == [c0 |-> 0, c1 |-> 0, cb0 |-> 0, cb1 |-> 0]

\* one pass of the loop of Fletcher.update (bytes_read = 1), on the sums c = <<c0, c1>>:
\* c0 = (c0 + bytepart) % modulus; c1 = (c1 + c0) % modulus
FletcherStep[c \in (0..254) \X (0..254), bytepart \in 0..255] ==
    <<(c[1] + bytepart) % modulus, (c[2] + ((c[1] + bytepart) % modulus)) % modulus>>

\* the loop of Fletcher.update over bytestring[i..]
RECURSIVE FletcherSums(_, _, _)
FletcherSums(c, bytestring, i) ==
    IF i > Len(bytestring) THEN c
    ELSE FletcherSums(FletcherStep[c, bytestring[i]], bytestring, i + 1)

\* self.cb0 = self.modulus - ((self.c0 + self.c1) % self.modulus)
CheckByte0(c0, c1) == modulus - ((c0 + c1) % modulus)

\* a faulty second check byte: c0 is left out
CheckByte1_Plain(c0, cb0) == modulus - (cb0 % modulus)

\* self.cb1 = self.modulus - ((self.c0 + self.cb0) % self.modulus)
CheckByte1(c0, cb0) == modulus - ((c0 + cb0) % modulus)

\* "compute check bytes": the object whose sums are c = <<c0, c1>>
CheckBytes[c \in (0..254) \X (0..254)] ==
    LET cb0 == CheckByte0(c[1], c[2])
    IN  [c0 |-> c[1], c1 |-> c[2], cb0 |-> cb0, cb1 |-> CheckByte1(c[1], cb0)]

\* the sums the loop of Fletcher.update leaves, run over bytestring from the sums c
FletcherLoop[c \in (0..254) \X (0..254), bytestring \in Seq(0..255)] ==
    FletcherSums(c, bytestring, 1)

\* a faulty loop: one iteration short, the last byte is not read
FletcherUpdate_SkipsLast(f, bytestring) ==
    CheckBytes[FletcherLoop[<<f.c0, f.c1>>,
                            SubSeq(bytestring, 1, Max(Len(bytestring) - 1, 0))]]

\* a faulty loop: it starts at the second byte
FletcherUpdate_SkipsFirst(f, bytestring) ==
    CheckBytes[FletcherLoop[<<f.c0, f.c1>>, SubSeq(bytestring, 2, Len(bytestring))]]

\* Fletcher.update(bytestring) on the object f
FletcherUpdate(f, bytestring) == CheckBytes[FletcherLoop[<<f.c0, f.c1>>, bytestring]]

\* the objects update leaves
FletcherObjects == [c0 : 0..254, c1 : 0..254, cb0 : 0..255, cb1 : 0..255]

\* (f8.cb0 << 8) + f8.cb1
CheckValue[f \in FletcherObjects] == f.cb0 * 256 + f.cb1

----------------------------------------------------------------------------
(* The frame codec of apcserial.py *)

verify_msg_checksum(raw_msg) ==
    LET msg_chksum == FromBytesBig(SliceFrom(raw_msg, -2))
        checksum   == CheckValue[FletcherUpdate(FletcherNew, Slice(raw_msg, 0, -2))]
    IN  msg_chksum = checksum

\* a faulty checksum: over the whole frame
calc_checksum_WholeFrame(raw_msg) ==
    CheckValue[FletcherUpdate(FletcherNew, raw_msg)]

\* calc_checksum: f8.update(raw_msg[0:15]); (f8.cb0 << 8) + f8.cb1
calc_checksum(raw_msg) ==
    CheckValue[FletcherUpdate(FletcherNew, Slice(raw_msg, 0, 15))]

\* "Add checksum": raw_msg += self.calc_checksum(raw_msg).to_bytes(2, byteorder='big')
AddChecksum[raw_msg \in Seq(0..255)] == raw_msg \o ToBytes2(calc_checksum(raw_msg))

create_msg_data(msg_id, offset, msg_data) ==
    AddChecksum[<<msg_id, offset, Len(msg_data)>> \o msg_data]

----------------------------------------------------------------------------
(* Constants of apcserial.py *)

INIT == "INIT"

INIT_RESET == "INIT_RESET"

MODE0 == "MODE0"

MODE1 == "MODE1"

CommState == {INIT, INIT_RESET, MODE0, MODE1}

\* The module-level lists. The code compares next_apc_msg by identity ("is not"),
\* so a message is the pair of the object's identity and its bytes.
APC_CMD_INIT == [obj |-> "APC_CMD_INIT", bytes |-> <<247, 253>>]

APC_CMD_BACK == [obj |-> "APC_CMD_BACK", bytes |-> <<247>>]

APC_CMD_RESET == [obj |-> "APC_CMD_RESET", bytes |-> <<253>>]

APC_CMD_NEXT == [obj |-> "APC_CMD_NEXT", bytes |-> <<254>>]

----------------------------------------------------------------------------
(* The message decoder: the part of handle_apc_msg after the checksum.         *)
(* A decode state is [ups, raised]: the assignments of a branch are applied in *)
(* order, and the first one that raises (IndexError, KeyError,                 *)
(* UnicodeDecodeError) leaves the earlier ones done and aborts the thread.     *)

\* ups_state[key] = val
Put(ups, key, val) ==
    [k \in DOMAIN ups \cup {key} |-> IF k = key THEN val ELSE ups[k]]

\* the assignment ups_state[key] = val, whose right-hand side evaluates iff ok
Set(key, ok, val) == [op |-> "set", key |-> key, ok |-> ok, val |-> val]

\* ups_state[key] = []
NewList(key) == [op |-> "new_list", key |-> key, ok |-> TRUE, val |-> <<>>]

\* ups_state[key].append(val)
ListAppend(key, val) == [op |-> "append", key |-> key, ok |-> TRUE, val |-> val]

\* ups_state[key] += val, on str; the right-hand side evaluates iff ok
AddTo(key, ok, val) == [op |-> "add", key |-> key, ok |-> ok, val |-> val]

\* the statement a raises: its right-hand side does, or it reads a key that is not
\* there (KeyError)
Raises(ups, a) ==
    \/ ~a.ok
    \/ a.op \in {"append", "add"} /\ a.key \notin DOMAIN ups

\* a faulty reset of a flag list: an existing list is kept (setdefault)
EmptyList_KeepExisting(ups, key) == IF key \in DOMAIN ups THEN ups[key] ELSE <<>>

\* the value of ups_state[key] = []
EmptyList(ups, key) == <<>>

\* Device State after the statement a
Apply(ups, a) ==
    Put(ups, a.key,
        CASE a.op = "set"      -> a.val
          [] a.op = "new_list" -> EmptyList(ups, a.key)
          [] a.op = "append"   -> ups[a.key] \o <<a.val>>
          [] a.op = "add"      -> [str |-> ups[a.key].str \o a.val.str])

\* the assignments a[i..] applied in order to the decode state st, up to the first
\* that raises (s is st, evaluated once)
RECURSIVE Exec(_, _, _)
Exec(st, a, i) ==
    IF i > Len(a) THEN st
    ELSE CHOOSE r \in
           {IF Raises(s.ups, a[i]) THEN [s EXCEPT !.raised = TRUE]
            ELSE Exec([s EXCEPT !.ups = Apply(s.ups, a[i])], a, i + 1)
              : s \in {st}} : TRUE

\* d[i] evaluates (i from 0)
Has(d, i) == i < Len(d)

\* d[i], i from 0
At(d, i) == IF i < Len(d) THEN d[i + 1] ELSE 0

\* bytes.decode() evaluates: ASCII text. (A byte above 0x7f raises unless it is
\* part of a well-formed multi-byte sequence; the frames of this model hold none.)
DecodeOk(b) == \A i \in 1..Len(b) : b[i] < 128

\* bytes.decode(): the str of the code points
Decode(b) == [str |-> b]

\* int.from_bytes(s, byteorder='big', signed=True): two's complement
FromBytesSigned(s) ==
    IF s # <<>> /\ FromBytesBig(s) >= 2 ^ (8 * Len(s) - 1)
    THEN FromBytesBig(s) - 2 ^ (8 * Len(s))
    ELSE FromBytesBig(s)

\* a faulty conversion: the sign flag is ignored
convert_from_bp_Unsigned(data, frac_pos, signed) ==
    [num |-> FromBytesBig(data), den |-> 2 ^ frac_pos]

\* convert_from_bp: int.from_bytes(data) / (2**frac_pos), as the fraction it is
convert_from_bp(data, frac_pos, signed) ==
    [num |-> IF signed THEN FromBytesSigned(data) ELSE FromBytesBig(data),
     den |-> 2 ^ frac_pos]

\* int(x) of a float x = num/den: truncation towards zero
Truncate(x) == IF x.num >= 0 THEN x.num \div x.den ELSE -((-x.num) \div x.den)

\* raw & bit == bit, for a bit 2^k
BitSet(raw, bit) == (raw \div bit) % 2 = 1

\* the chain of "if raw & bit == bit: ups_state[key].append(name)" over the
\* <<bit, name>> pairs of table, in order
Flags(key, raw, table) ==
    LET hits == SelectSeq(table, LAMBDA t : BitSet(raw, t[1]))
    IN  [i \in 1..Len(hits) |-> ListAppend(key, hits[i][2])]

\* convert_to_datetime: datetime(2000,1,1) + timedelta(days=value)
convert_to_datetime(value) == [from |-> <<2000, 1, 1>>, days |-> value]

Decode00(d) ==
    <<Set("protocol_version", Has(d, 0), At(d, 0)),
      Set("msg_size", Has(d, 1), At(d, 1)),
      Set("num_ids", Has(d, 2), At(d, 2)),
      Set("series_id", TRUE, FromBytesBig(Slice(d, 3, 5))),
      Set("series_id_raw", TRUE, Slice(d, 3, 5)),
      Set("series_data_version", Has(d, 5), At(d, 5)),
      Set("unknown_3", Has(d, 6), At(d, 6)),
      Set("unknown_4", Has(d, 7), At(d, 7)),
      Set("header_raw", TRUE, Slice(d, 0, 8))>>

Decode40(d) ==
    <<Set("serial_nb", DecodeOk(Slice(d, 0, 14)), Decode(Slice(d, 0, 14))),
      Set("serial_nb_raw", TRUE, Slice(d, 0, 14)),
      Set("production_date", TRUE, convert_to_datetime(FromBytesBig(Slice(d, 14, 16))))>>

\* id 0x41: ups_state['ups_type'] = msg_data.decode()
Decode41(d) == <<Set("ups_type", DecodeOk(d), Decode(d))>>

\* a faulty second half: it replaces the first instead of extending it
Decode42_Overwrites(d) == <<Set("ups_type", DecodeOk(d), Decode(d))>>

\* id 0x42: ups_state['ups_type'] += msg_data.decode()
Decode42(d) == <<AddTo("ups_type", DecodeOk(d), Decode(d))>>

\* the bits of load_shed_config_raw tested in lines 304-324, in the order of the
\* tests (16 is tested twice)
LoadShedFlags ==
    <<<<1, "USE_OFF_DELAY">>, <<2, "MANUAL_RESTART_REQUIRED">>, <<4, "RESERVED_BIT">>,
      <<8, "TIME_ON_BATTERY">>, <<16, "RUNTIME_REMAINING">>, <<16, "ON_OVERLOAD">> >>

\* id 0x4c
Decode4c(d) ==
    LET load_shed_config_raw == FromBytesBig(Slice(d, 10, 12))
    IN  <<Set("power_on_delay", TRUE, FromBytesBig(Slice(d, 0, 2))),
          Set("power_off_delay", TRUE, FromBytesBig(Slice(d, 2, 4))),
          Set("reboot_delay", TRUE, FromBytesBig(Slice(d, 4, 8))),
          Set("runtime_minimum_return", TRUE, convert_from_bp(Slice(d, 8, 10), 0, FALSE)),
          Set("loadshed_config_raw", TRUE, load_shed_config_raw),
          NewList("loadshed_config")>>
        \o Flags("loadshed_config", load_shed_config_raw, LoadShedFlags)
        \o <<Set("loadshed_runtime_remaining", TRUE,
                 convert_from_bp(Slice(d, 12, 14), 0, FALSE)),
             Set("loadshed_runtime_limit", TRUE,
                 convert_from_bp(Slice(d, 14, 16), 0, FALSE))>>

\* the bits of battery_replacetest_status tested in lines 377-400
ReplaceTestFlags ==
    <<<<1, "PENDING">>, <<2, "IN PROGRESS">>, <<4, "PASSED">>, <<8, "FAILED">>,
      <<16, "REFUSED">>, <<32, "ABORTED">>, <<64, "SOURCE PROTOCOL">>,
      <<128, "SOURCE UI">>, <<256, "SOURCE INTERNAL">>, <<512, "INVALID STATE">>,
      <<1024, "INTERNAL FAULT">>, <<2048, "SOC UNACCEPTABLE">> >>

\* the bits tested in lines 405-416, appended to runtime_calibration_status
CalibrationFlags ==
    <<<<1, "PENDING">>, <<2, "IN PROGRESS">>, <<4, "PASSED">>, <<8, "FAILED">>,
      <<16, "REFUSED">>, <<32, "ABORTED">> >>

\* the bits tested in lines 417-436, appended to battery_replacetest_status
CalibrationSourceFlags ==
    <<<<64, "SOURCE PROTOCOL">>, <<128, "SOURCE UI">>, <<256, "SOURCE INTERNAL">>,
      <<512, "INVALID STATE">>, <<1024, "INTERNAL FAULT">>,
      <<2048, "SOC UNACCEPTABLE">>, <<4096, "LOAD CHANGED">>,
      <<8192, "AC INPUT NOT ACCEPTABLE">>, <<16384, "LOAD TOO LOW">>,
      <<32768, "OVERCHARGE IN PROGRESS">> >>

\* id 0x6d. Both blocks of flags test battery_replacetest_status (the code reads
\* runtime_calibration_status only into its _raw field).
Decode6d(d) ==
    LET battery_replacetest_status == FromBytesBig(Slice(d, 6, 8))
    IN  <<Set("battery_voltage", TRUE, convert_from_bp(Slice(d, 0, 2), 5, TRUE)),
          Set("battery_soc", TRUE, convert_from_bp(Slice(d, 2, 4), 9, FALSE)),
          Set("battery_replacetest_cmd", TRUE, FromBytesBig(Slice(d, 4, 6))),
          Set("battery_replacetest_status_raw", TRUE, battery_replacetest_status),
          NewList("battery_replacetest_status")>>
        \o (IF battery_replacetest_status = 0
            THEN <<ListAppend("battery_replacetest_status", "UNKNOWN")>> ELSE <<>>)
        \o Flags("battery_replacetest_status", battery_replacetest_status,
                 ReplaceTestFlags)
        \o <<Set("runtime_calibration_status_raw", TRUE, FromBytesBig(Slice(d, 10, 12))),
             NewList("runtime_calibration_status")>>
        \o Flags("runtime_calibration_status", battery_replacetest_status,
                 CalibrationFlags)
        \o Flags("battery_replacetest_status", battery_replacetest_status,
                 CalibrationSourceFlags)
        \o <<Set("runtime_remaining", TRUE,
                 Truncate(convert_from_bp(Slice(d, 14, 16), 0, FALSE)))>>

Decode7e(d) ==
    <<Set("password_1", TRUE, Slice(d, 8, 12)),
      Set("password_2", TRUE, Slice(d, 12, 16))>>

\* the assignment of the 0x7f branch that precedes the challenge
Decode7f(d) == <<Set("challenge_status", TRUE, Slice(d, 14, 16))>>

\* the ids of the if/elif chain on msg_id
DecodeTable ==
    {0, 64, 65, 66, 67, 68, 69, 70, 71, 72, 73, 74, 75, 76, 77, 78, 92, 108, 109,
     110, 111, 112, 113, 114, 118, 121, 122, 126, 127}

\* a faulty chain: the data of every message is stored under its own key
Branch_StoresAll(msg_id, d) == <<Set("last_msg", TRUE, d)>>

\* the if/elif chain on msg_id: the assignments of the branch taken; an id of no
\* branch assigns nothing. (The branches of the ids the device of this model sends.)
Branch(msg_id, d) ==
    CASE msg_id = 0   -> Decode00(d)
      [] msg_id = 64  -> Decode40(d)
      [] msg_id = 65  -> Decode41(d)
      [] msg_id = 66  -> Decode42(d)
      [] msg_id = 76  -> Decode4c(d)
      [] msg_id = 109 -> Decode6d(d)
      [] msg_id = 126 -> Decode7e(d)
      [] msg_id = 127 -> Decode7f(d)
      [] OTHER        -> <<>>

\* Device State after the assignments a ran, and whether one raised
DecodeFields(ups, a) == Exec([ups |-> ups, raised |-> FALSE], a, 1)

----------------------------------------------------------------------------
(* calculate_challenge *)

\* the body of the for-loops, on b = <<b0, b1>>:
\* b0 = (b0 + x) % 255; b1 = (b1 + b0) % 255
ChallengeStep[b \in (0..255) \X (0..255), x \in 0..255] ==
    <<(b[1] + x) % 255, (b[2] + ((b[1] + x) % 255)) % 255>>

\* one of the three for-loops, over bytes[i..]
RECURSIVE ChallengeLoop(_, _, _)
ChallengeLoop(b, bytes, i) ==
    IF i > Len(bytes) THEN b
    ELSE ChallengeLoop(ChallengeStep[b, bytes[i]], bytes, i + 1)

\* the keys calculate_challenge reads
FingerprintKeys == {"series_id_raw", "header_raw", "serial_nb_raw", "password_1"}

\* calculate_challenge evaluates: no KeyError, no IndexError
ChallengeOk(ups) ==
    /\ FingerprintKeys \subseteq DOMAIN ups
    /\ Len(ups["series_id_raw"]) >= 2

\* a faulty calculation: the seeds b0 and b1 are taken in the other order
calculate_challenge_SeedsSwapped(ups) ==
    LET sid == ups["series_id_raw"]
        h   == ChallengeLoop(<<sid[1], sid[2]>>, ups["header_raw"], 1)
        s   == ChallengeLoop(h, ups["serial_nb_raw"], 1)
        p   == ChallengeLoop(s, Slice(ups["password_1"], 0, 2), 1)
    IN  <<1, 1, p[1], p[2]>>

\* a faulty calculation: the loop over the password bytes is missing
calculate_challenge_NoPassword(ups) ==
    LET sid == ups["series_id_raw"]
        h   == ChallengeLoop(<<sid[2], sid[1]>>, ups["header_raw"], 1)
        s   == ChallengeLoop(h, ups["serial_nb_raw"], 1)
    IN  <<1, 1, s[1], s[2]>>

calculate_challenge(ups) ==
    LET sid == ups["series_id_raw"]
        h   == ChallengeLoop(<<sid[2], sid[1]>>, ups["header_raw"], 1)
        s   == ChallengeLoop(h, ups["serial_nb_raw"], 1)
        p   == ChallengeLoop(s, Slice(ups["password_1"], 0, 2), 1)
    IN  <<1, 1, p[1], p[2]>>

\* the frame handle_apc_msg writes for the challenge
challenge_msg(ups) == create_msg_data(126, 12, calculate_challenge(ups))

\* a faulty test of the reply: any non-empty reply is taken as the echo
ChallengeAccepted_AnyReply(rcv) == Len(rcv) > 0

\* a faulty test of the reply: the id of the message that triggered the challenge
ChallengeAccepted_SameAsTrigger(rcv) == Len(rcv) > 0 /\ rcv[1] = 127

\* rcv_data is not None and len(rcv_data) > 0 and rcv_data[0] == 0x7e
ChallengeAccepted(rcv) == Len(rcv) > 0 /\ rcv[1] = 126

----------------------------------------------------------------------------
(* The device and the callers: the inputs of the engine *)

\* a frame as the UPS sends it: a 17-byte body (id, 16 data bytes) and the check
\* value of the body, as in the captures of testFletcher.py
DeviceFrame(body) == body \o ToBytes2(CheckValue[FletcherUpdate(FletcherNew, body)])

\* id 0x00, the header (capture 000a108003ed07090001004000f802fe04)
Body00 == <<0, 10, 16, 128, 3, 237, 7, 9, 0, 1, 0, 64, 0, 248, 2, 254, 4>>

\* id 0x40, the serial number "3S1607X00588  " and a production date
Body40 == <<64, 51, 83, 49, 54, 48, 55, 88, 48, 48, 53, 56, 56, 32, 32, 23, 2>>

\* id 0x7e, the two password fragments in its last eight bytes
Body7e == <<126, 0, 0, 0, 0, 0, 0, 0, 0, 17, 34, 51, 68, 85, 102, 119, 136>>

\* id 0x7f (capture 7f0000000019c90013004e000001790000)
Body7f == <<127, 0, 0, 0, 0, 25, 201, 0, 19, 0, 78, 0, 0, 1, 121, 0, 0>>

\* a capture whose check value verify_msg_checksum does not accept: the fixture
\* 7f0000000019d40013004e000001790000 with its captured check value 0xac0e
BadFrame == <<127, 0, 0, 0, 0, 25, 212, 0, 19, 0, 78, 0, 0, 1, 121, 0, 0>> \o <<172, 14>>

\* what a read of the transport may return within the timeout
Responses ==
    {<<>>, BadFrame, DeviceFrame(Body00), DeviceFrame(Body40), DeviceFrame(Body7e),
     DeviceFrame(Body7f)}

\* id 0x41, the first half of the name: "Smart-UPS 1500  "
Body41 == <<65, 83, 109, 97, 114, 116, 45, 85, 80, 83, 32, 49, 53, 48, 48, 32, 32>>

\* id 0x42, the second half of the name: "RM" and blanks
Body42 == <<66, 82, 77, 32, 32, 32, 32, 32, 32, 32, 32, 32, 32, 32, 32, 32, 32>>

\* id 0x6d: 27.0 V, 100 %, no command, status 0x0044 (PASSED, SOURCE PROTOCOL),
\* calibration status 0, 3600 s of runtime
Body6d == <<109, 3, 96, 200, 0, 0, 0, 0, 68, 0, 0, 0, 0, 0, 0, 14, 16>>

\* an id of no branch of the decoder
BodyUnknown == <<1, 7, 7, 7, 7, 7, 7, 7, 7, 7, 7, 7, 7, 7, 7, 7, 7>>

\* id 0x00 with two data bytes only: shorter than the fields of its branch
BodyShort == <<0, 1, 2>>

\* every message of the device of this model
DeviceResponses ==
    Responses \cup
    {DeviceFrame(Body41), DeviceFrame(Body42), DeviceFrame(Body6d),
     DeviceFrame(BodyUnknown), DeviceFrame(BodyShort)}

\* the header message with a check value that is not its own
BadHeader == Body00 \o <<0, 0>>

\* what a line that garbles every frame delivers: frames whose checksum fails
BadFrames == {BadFrame, BadHeader}

\* verify_msg_checksum and the branch of the decoder, tabulated over the frames a
\* read may return (each is computed once, however often the frame arrives)
Verified == [r \in DeviceResponses \cup BadFrames |-> verify_msg_checksum(r)]

Branches ==
    [r \in (DeviceResponses \cup BadFrames) \ {<<>>} |-> Branch(r[1], Slice(r, 1, -2))]

\* the longest ups_type the model lets the second halves build up
MaxTextLen == 48

\* len(ups_state['ups_type']), 0 before the first half arrived
TextLen ==
    IF "ups_type" \in DOMAIN ups_state THEN Len(ups_state["ups_type"].str) ELSE 0

\* receive_msg: the bytes read within APC_RCV_TIMEOUT; none when the line is down
receive_msg ==
    IF line = "down" THEN {<<>>}
    ELSE IF line = "up" THEN Responses
    ELSE IF line = "bad" THEN BadFrames
    ELSE {r \in DeviceResponses : r = <<>> \/ r[1] # 66 \/ TextLen < MaxTextLen}

\* the threads that call send_apc_msg
Callers == {"c1", "c2"}

\* the raw_msg each caller submits, built as ApcCLI.do_set builds it
\* (battery_replacetest_cmd START and STOP)
raw_msg(c) ==
    [obj |-> c,
     bytes |-> create_msg_data(109, 4, IF c = "c1" THEN <<0, 1>> ELSE <<0, 2>>)]

\* the history of the transport after self.s.write(...): a write that follows a
\* write whose response was not read is recorded as such
Written(last) == IF last \in {"idle", "read"} THEN "written" ELSE "two_writes"

\* the history of the transport after self.receive_msg(): a read that no write
\* preceded, or that follows another read, is recorded as such
ReadDone(last) == IF last = "written" THEN "read" ELSE "unasked_read"

----------------------------------------------------------------------------
(* ApcComm.__init__ *)

EngineInit ==
    /\ state = INIT
    /\ prev_state = INIT
    /\ next_apc_msg = APC_CMD_NEXT
    /\ running = TRUE
    /\ ups_state = [k \in {"comm_state"} |-> "offline"]
    /\ pc_run = "top"
    /\ rcv_data = <<>>
    /\ result = FALSE
    /\ reply = <<>>
    /\ cpc = [c \in Callers |-> "idle"]
    /\ cret = [c \in Callers |-> "none"]
    /\ wire = [bytes |-> <<>>, at |-> INIT, obj |-> "none"]
    /\ io = "idle"
    /\ sent = [c \in Callers |-> FALSE]
    /\ allEmpty = TRUE
    /\ comm_written = FALSE

CodecIdle ==
    /\ f8 = FletcherNew
    /\ tc = [op |-> "none"]

\* the serial line is up, or down from the start
Init ==
    /\ EngineInit
    /\ line \in {"up", "down"}
    /\ CodecIdle

----------------------------------------------------------------------------
(* ApcComm.send_apc_msg, one step per access to the shared attributes *)

\* the CLI thread enters send_apc_msg(raw_msg)
Call(c) ==
    /\ cpc[c] = "idle"
    /\ cpc' = [cpc EXCEPT ![c] = "check"]
    /\ cret' = [cret EXCEPT ![c] = "none"]
    /\ sent' = [sent EXCEPT ![c] = FALSE]
    /\ UNCHANGED <<state, prev_state, next_apc_msg, running, ups_state, pc_run,
                   rcv_data, result, reply, line, wire, io, allEmpty, comm_written,
                   f8, tc>>

\* a faulty guard: only the Init state rejects
NotMode1_OnlyInit(st) == st = INIT

\* self.state is not CommState.MODE1
NotMode1(st) == st # MODE1

\* if self.state is not CommState.MODE1: return False
Check(c) ==
    /\ cpc[c] = "check"
    /\ IF NotMode1(state)
       THEN /\ cpc' = [cpc EXCEPT ![c] = "done"]
            /\ cret' = [cret EXCEPT ![c] = "False"]
       ELSE /\ cpc' = [cpc EXCEPT ![c] = "store"]
            /\ cret' = cret
    /\ UNCHANGED <<state, prev_state, next_apc_msg, running, ups_state, pc_run,
                   rcv_data, result, reply, line, wire, io, sent, allEmpty, comm_written,
                   f8, tc>>

\* a faulty submission: the caller writes its frame to the transport itself
Store_WritesDirectly(c) ==
    /\ cpc[c] = "store"
    /\ next_apc_msg' = raw_msg(c)
    /\ wire' = [bytes |-> raw_msg(c).bytes, at |-> state, obj |-> c]
    /\ io' = Written(io)
    /\ cpc' = [cpc EXCEPT ![c] = "wait"]
    /\ UNCHANGED <<state, prev_state, running, ups_state, pc_run, rcv_data, result,
                   reply, cret, line, sent, allEmpty, comm_written,
                   f8, tc>>

\* self.next_apc_msg = raw_msg
Store(c) ==
    /\ cpc[c] = "store"
    /\ next_apc_msg' = raw_msg(c)
    /\ cpc' = [cpc EXCEPT ![c] = "wait"]
    /\ UNCHANGED <<state, prev_state, running, ups_state, pc_run, rcv_data, result,
                   reply, cret, line, wire, io, sent, allEmpty, comm_written,
                   f8, tc>>

\* while self.next_apc_msg is not APC_CMD_NEXT: time.sleep(...); return True
\* (a test that finds another object sleeps and changes nothing)
Wait(c) ==
    /\ cpc[c] = "wait"
    /\ next_apc_msg.obj = APC_CMD_NEXT.obj
    /\ cpc' = [cpc EXCEPT ![c] = "done"]
    /\ cret' = [cret EXCEPT ![c] = "True"]
    /\ UNCHANGED <<state, prev_state, next_apc_msg, running, ups_state, pc_run,
                   rcv_data, result, reply, line, wire, io, sent, allEmpty, comm_written,
                   f8, tc>>

\* the caller has its result and may call again
Return(c) ==
    /\ cpc[c] = "done"
    /\ cpc' = [cpc EXCEPT ![c] = "idle"]
    /\ UNCHANGED <<state, prev_state, next_apc_msg, running, ups_state, pc_run,
                   rcv_data, result, reply, cret, line, wire, io, sent, allEmpty, comm_written,
                   f8, tc>>

----------------------------------------------------------------------------
(* ApcComm.run, one step per access to the attributes shared with the callers *)

\* a faulty loop head: while True
Top_IgnoresRunning ==
    /\ pc_run = "top"
    /\ pc_run' = "send"
    /\ UNCHANGED <<state, prev_state, next_apc_msg, running, ups_state, rcv_data,
                   result, reply, cpc, cret, line, wire, io, sent, allEmpty, comm_written,
                   f8, tc>>

\* a faulty loop: the cycle begins with the read
Top_SkipsWrite ==
    /\ pc_run = "top"
    /\ pc_run' = IF running THEN "recv" ELSE "stopped"
    /\ UNCHANGED <<state, prev_state, next_apc_msg, running, ups_state, rcv_data,
                   result, reply, cpc, cret, line, wire, io, sent, allEmpty,
                   comm_written, f8, tc>>

\* while (self.running)
Top ==
    /\ pc_run = "top"
    /\ pc_run' = IF running THEN "send" ELSE "stopped"
    /\ UNCHANGED <<state, prev_state, next_apc_msg, running, ups_state, rcv_data,
                   result, reply, cpc, cret, line, wire, io, sent, allEmpty, comm_written,
                   f8, tc>>

\* what the branch of the state writes
Outgoing(st, slot) ==
    IF st = INIT THEN APC_CMD_INIT
    ELSE IF st = INIT_RESET THEN APC_CMD_RESET
    ELSE slot

\* self.s.write(...)
Send ==
    /\ pc_run = "send"
    /\ LET msg == Outgoing(state, next_apc_msg)
       IN  /\ wire' = [bytes |-> msg.bytes, at |-> state, obj |-> msg.obj]
           /\ io' = Written(io)
           /\ sent' = [c \in Callers |-> sent[c] \/ msg.obj = c]
    /\ pc_run' = "recv"
    /\ UNCHANGED <<state, prev_state, next_apc_msg, running, ups_state, rcv_data,
                   result, reply, cpc, cret, line, allEmpty, comm_written,
                   f8, tc>>

\* rcv_data = self.receive_msg()
Recv ==
    /\ pc_run = "recv"
    /\ \E data \in receive_msg :
         /\ rcv_data' = data
         /\ allEmpty' = (allEmpty /\ data = <<>>)
    /\ io' = ReadDone(io)
    /\ pc_run' = IF state = MODE1 THEN "reset" ELSE "handle"
    /\ UNCHANGED <<state, prev_state, next_apc_msg, running, ups_state, result, reply,
                   cpc, cret, line, wire, sent, comm_written,
                   f8, tc>>

\* MODE1: if self.next_apc_msg is not None: self.next_apc_msg = APC_CMD_NEXT
Reset ==
    /\ pc_run = "reset"
    /\ next_apc_msg' = APC_CMD_NEXT
    /\ pc_run' = "handle"
    /\ UNCHANGED <<state, prev_state, running, ups_state, rcv_data, result, reply,
                   cpc, cret, line, wire, io, sent, allEmpty, comm_written,
                   f8, tc>>

\* a faulty handler: id 0x7f starts the challenge in every state
handle_apc_msg_AnyState(raw, st, ups) ==
    IF Len(raw) = 0 THEN [kind |-> "empty", ups |-> ups]
    ELSE IF ~Verified[raw] THEN [kind |-> "bad", ups |-> ups]
    ELSE CHOOSE r \in
           {[kind |-> IF d.raised THEN "raise"
                      ELSE IF raw[1] = 127
                           THEN IF ChallengeOk(d.ups) THEN "challenge" ELSE "raise"
                           ELSE "ok",
             ups  |-> d.ups] : d \in {DecodeFields(ups, Branches[raw])}} : TRUE

\* a faulty handler: a frame that fails the checksum is handled as no frame
handle_apc_msg_BadIsEmpty(raw, st, ups) ==
    IF Len(raw) = 0 \/ ~Verified[raw] THEN [kind |-> "empty", ups |-> ups]
    ELSE CHOOSE r \in
           {[kind |-> IF d.raised THEN "raise"
                      ELSE IF raw[1] = 127 /\ st = MODE0
                           THEN IF ChallengeOk(d.ups) THEN "challenge" ELSE "raise"
                           ELSE "ok",
             ups  |-> d.ups] : d \in {DecodeFields(ups, Branches[raw])}} : TRUE

\* handle_apc_msg(raw) in state st with Device State ups, up to its return or up to
\* the write of the challenge: how it goes, and the Device State it leaves
\*   "empty"     no bytes: the else branch
\*   "bad"       the checksum fails
\*   "raise"     an assignment of the decoder, or calculate_challenge, raises
\*   "challenge" id 0x7f in MODE0: the challenge frame is written
\*   "ok"        decoded
handle_apc_msg(raw, st, ups) ==
    IF Len(raw) = 0 THEN [kind |-> "empty", ups |-> ups]
    ELSE IF ~Verified[raw] THEN [kind |-> "bad", ups |-> ups]
    ELSE CHOOSE r \in
           {[kind |-> IF d.raised THEN "raise"
                      ELSE IF raw[1] = 127 /\ st = MODE0
                           THEN IF ChallengeOk(d.ups) THEN "challenge" ELSE "raise"
                           ELSE "ok",
             ups  |-> d.ups] : d \in {DecodeFields(ups, Branches[raw])}} : TRUE

\* a faulty handler: a frame that fails the checksum re-arms the keep-alive
AfterBadChecksum_KeepAlive == APC_CMD_NEXT

\* if not self.verify_msg_checksum(raw_msg): self.next_apc_msg = APC_CMD_BACK
AfterBadChecksum == APC_CMD_BACK

\* a faulty else branch: an empty response re-arms the keep-alive
AfterEmpty_KeepAlive == APC_CMD_NEXT

\* else: self.next_apc_msg = APC_CMD_RESET
AfterEmpty == APC_CMD_RESET

Handle ==
    /\ pc_run = "handle"
    /\ \E h \in {handle_apc_msg(rcv_data, state, ups_state)} :
         /\ ups_state' = h.ups
         /\ CASE h.kind = "empty" ->
                  /\ next_apc_msg' = AfterEmpty
                  /\ result' = FALSE
                  /\ pc_run' = "finish"
                  /\ UNCHANGED <<wire, io>>
             [] h.kind = "bad" ->
                  /\ next_apc_msg' = AfterBadChecksum
                  /\ result' = TRUE
                  /\ pc_run' = "finish"
                  /\ UNCHANGED <<wire, io>>
             [] h.kind = "raise" ->
                  /\ pc_run' = "crashed"
                  /\ UNCHANGED <<next_apc_msg, result, wire, io>>
             [] h.kind = "challenge" ->
                  /\ wire' = [bytes |-> challenge_msg(h.ups), at |-> state,
                              obj |-> "challenge_msg"]
                  /\ io' = Written(io)
                  /\ pc_run' = "chal_recv"
                  /\ UNCHANGED <<next_apc_msg, result>>
             [] h.kind = "ok" ->
                  /\ next_apc_msg' = APC_CMD_NEXT
                  /\ result' = TRUE
                  /\ pc_run' = "finish"
                  /\ UNCHANGED <<wire, io>>
    /\ UNCHANGED <<state, prev_state, running, rcv_data, reply, cpc, cret, line,
                   sent, allEmpty, comm_written, f8, tc>>

\* the reply to the challenge: rcv_data = self.receive_msg(), then MODE1 or return False
ChalRecv ==
    /\ pc_run = "chal_recv"
    /\ \E data \in receive_msg :
         /\ reply' = data
         /\ allEmpty' = (allEmpty /\ data = <<>>)
         /\ IF ChallengeAccepted(data)
            THEN /\ state' = MODE1
                 /\ pc_run' = "chal_next"
                 /\ result' = result
            ELSE /\ state' = state
                 /\ result' = FALSE
                 /\ pc_run' = "finish"
    /\ io' = ReadDone(io)
    /\ UNCHANGED <<prev_state, next_apc_msg, running, ups_state, rcv_data, cpc, cret,
                   line, wire, sent, comm_written,
                   f8, tc>>

\* after the challenge: self.next_apc_msg = APC_CMD_NEXT; return True
ChalNext ==
    /\ pc_run = "chal_next"
    /\ next_apc_msg' = APC_CMD_NEXT
    /\ result' = TRUE
    /\ pc_run' = "finish"
    /\ UNCHANGED <<state, prev_state, running, ups_state, rcv_data, reply, cpc, cret,
                   line, wire, io, sent, allEmpty, comm_written,
                   f8, tc>>

\* a faulty transition: a failed reset cycle stays in INIT_RESET
NextState_ResetStays(branch, res, cur) ==
    CASE branch = INIT       -> IF ~res THEN INIT_RESET ELSE MODE0
      [] branch = INIT_RESET -> IF ~res THEN INIT_RESET ELSE MODE0
      [] branch = MODE0      -> IF ~res THEN INIT ELSE cur
      [] branch = MODE1      -> IF ~res THEN INIT ELSE cur

\* a faulty transition: a failed MODE0 cycle stays in MODE0
NextState_Mode0Stays(branch, res, cur) ==
    CASE branch = INIT       -> IF ~res THEN INIT_RESET ELSE MODE0
      [] branch = INIT_RESET -> IF ~res THEN INIT ELSE MODE0
      [] branch = MODE0      -> cur
      [] branch = MODE1      -> IF ~res THEN INIT ELSE cur

\* a faulty transition: a failed MODE1 cycle goes to INIT_RESET
NextState_Mode1ToReset(branch, res, cur) ==
    CASE branch = INIT       -> IF ~res THEN INIT_RESET ELSE MODE0
      [] branch = INIT_RESET -> IF ~res THEN INIT ELSE MODE0
      [] branch = MODE0      -> IF ~res THEN INIT ELSE cur
      [] branch = MODE1      -> IF ~res THEN INIT_RESET ELSE cur

\* the state run assigns after handle_apc_msg returned res, in the branch it took
\* (the state at the top of the cycle), cur being the state handle_apc_msg left
NextState(branch, res, cur) ==
    CASE branch = INIT       -> IF ~res THEN INIT_RESET ELSE MODE0
      [] branch = INIT_RESET -> IF ~res THEN INIT ELSE MODE0
      [] branch = MODE0      -> IF ~res THEN INIT ELSE cur
      [] branch = MODE1      -> IF ~res THEN INIT ELSE cur

\* a faulty test: comm_state is assigned in every cycle
StateChanged_Always(new, prev) == TRUE

\* if self.state is not self.prev_state
StateChanged(new, prev) == new # prev

\* a faulty tail: comm_state is only ever set to 'online'
CommStateAfter_NeverOffline(ups, new, prev) ==
    IF StateChanged(new, prev) /\ new \in {MODE0, MODE1}
    THEN Put(ups, "comm_state", "online")
    ELSE ups

\* a faulty tail: going offline starts Device State afresh
CommStateAfter_ForgetsOffline(ups, new, prev) ==
    IF StateChanged(new, prev)
    THEN IF new \in {MODE0, MODE1}
         THEN Put(ups, "comm_state", "online")
         ELSE [k \in {"comm_state"} |-> "offline"]
    ELSE ups

\* if self.state is not self.prev_state: ups_state['comm_state'] = ...
CommStateAfter(ups, new, prev) ==
    IF StateChanged(new, prev)
    THEN Put(ups, "comm_state", IF new \in {MODE0, MODE1} THEN "online" ELSE "offline")
    ELSE ups

\* the end of the cycle: the assignment of self.state, comm_state, prev_state.
\* prev_state still holds the state at the top of the cycle, which chose the branch.
Finish ==
    /\ pc_run = "finish"
    /\ LET new == NextState(prev_state, result, state)
       IN  /\ state' = new
           /\ ups_state' = CommStateAfter(ups_state, new, prev_state)
           /\ comm_written' = StateChanged(new, prev_state)
           /\ prev_state' = new
    /\ pc_run' = "top"
    /\ rcv_data' = <<>>
    /\ reply' = <<>>
    /\ result' = FALSE
    /\ UNCHANGED <<next_apc_msg, running, cpc, cret, line, wire, io, sent, allEmpty,
                   f8, tc>>

----------------------------------------------------------------------------
(* The environment *)

\* ApcCLI.do_exit: self.apc_comm.running = False
Exit ==
    /\ running
    /\ running' = FALSE
    /\ UNCHANGED <<state, prev_state, next_apc_msg, ups_state, pc_run, rcv_data,
                   result, reply, cpc, cret, line, wire, io, sent, allEmpty, comm_written,
                   f8, tc>>

\* the serial line goes down: from now on every read times out
LineDown ==
    /\ line = "up"
    /\ line' = "down"
    /\ UNCHANGED <<state, prev_state, next_apc_msg, running, ups_state, pc_run,
                   rcv_data, result, reply, cpc, cret, wire, io, sent, allEmpty, comm_written,
                   f8, tc>>

Run == Top \/ Send \/ Recv \/ Reset \/ Handle \/ ChalRecv \/ ChalNext \/ Finish

Caller(c) == Call(c) \/ Check(c) \/ Store(c) \/ Wait(c) \/ Return(c)

Next ==
    \/ Top
    \/ Send
    \/ Recv
    \/ Reset
    \/ Handle
    \/ ChalRecv
    \/ ChalNext
    \/ Finish
    \/ \E c \in Callers : Call(c)
    \/ \E c \in Callers : Check(c)
    \/ \E c \in Callers : Store(c)
    \/ \E c \in Callers : Wait(c)
    \/ \E c \in Callers : Return(c)
    \/ Exit
    \/ LineDown

Spec == Init /\ [][Next]_vars

\* every thread is scheduled: the poll loop, and each caller's steps
FairSpec ==
    /\ Spec
    /\ WF_vars(Run)
    /\ \A c \in Callers : WF_vars(Caller(c))

\* the poll loop alone, on a line whose device sends every message of the model
DecoderInit ==
    /\ EngineInit
    /\ line = "full"
    /\ CodecIdle

DecoderNext == Top \/ Send \/ Recv \/ Reset \/ Handle \/ ChalRecv \/ ChalNext \/ Finish

DecoderSpec == DecoderInit /\ [][DecoderNext]_vars

\* the poll loop, the callers and do_exit on a line that garbles every frame: no
\* read is empty and none passes verify_msg_checksum
BadLineInit ==
    /\ EngineInit
    /\ line = "bad"
    /\ CodecIdle

\* (what a frame accepted by the decoder would start never starts here)
BadLineNext ==
    \/ Top
    \/ Send
    \/ Recv
    \/ Handle
    \/ Finish
    \/ \E c \in Callers : Call(c)
    \/ \E c \in Callers : Check(c)
    \/ \E c \in Callers : Return(c)
    \/ Exit

\* the thread of the poll loop is scheduled
BadLineSpec == BadLineInit /\ [][BadLineNext]_vars /\ WF_vars(Run)

TypeOK ==
    /\ state \in CommState
    /\ prev_state \in CommState
    /\ running \in BOOLEAN
    /\ result \in BOOLEAN
    /\ line \in {"up", "down", "full", "bad"}
    /\ io \in {"idle", "written", "read", "two_writes", "unasked_read"}
    /\ cpc \in [Callers -> {"idle", "check", "store", "wait", "done"}]
    /\ cret \in [Callers -> {"none", "True", "False"}]

----------------------------------------------------------------------------
(* The codec applied to bounded inputs: the loop of testFletcher.py, and        *)
(* create_msg_data followed by verify_msg_checksum as ApcCLI.do_write and       *)
(* handle_apc_msg apply them.                                                  *)

\* testFletcher.py: the captured 17-byte bodies with their check values
\* (0x3190, 0x19a6, 0x0db1, 0x01bc, 0xf4c7, 0xe8d2, 0xdcdd, 0xd0e8, 0xc4f3, 0xb8fe,
\*  0xac0e, 0xa015, 0x5eb8)
samples ==
    <<
       <<<<127, 0, 0, 0, 0, 25, 201, 0, 19, 0, 78, 0, 0, 1, 121, 0, 0>>,
         12688>>,
       <<<<127, 0, 0, 0, 0, 25, 203, 0, 19, 0, 78, 0, 0, 1, 121, 0, 0>>,
         6566>>,
       <<<<127, 0, 0, 0, 0, 25, 204, 0, 19, 0, 78, 0, 0, 1, 121, 0, 0>>,
         3505>>,
       <<<<127, 0, 0, 0, 0, 25, 205, 0, 19, 0, 78, 0, 0, 1, 121, 0, 0>>,
         444>>,
       <<<<127, 0, 0, 0, 0, 25, 206, 0, 19, 0, 78, 0, 0, 1, 121, 0, 0>>,
         62663>>,
       <<<<127, 0, 0, 0, 0, 25, 207, 0, 19, 0, 78, 0, 0, 1, 121, 0, 0>>,
         59602>>,
       <<<<127, 0, 0, 0, 0, 25, 208, 0, 19, 0, 78, 0, 0, 1, 121, 0, 0>>,
         56541>>,
       <<<<127, 0, 0, 0, 0, 25, 209, 0, 19, 0, 78, 0, 0, 1, 121, 0, 0>>,
         53480>>,
       <<<<127, 0, 0, 0, 0, 25, 210, 0, 19, 0, 78, 0, 0, 1, 121, 0, 0>>,
         50419>>,
       <<<<127, 0, 0, 0, 0, 25, 211, 0, 19, 0, 78, 0, 0, 1, 121, 0, 0>>,
         47358>>,
       <<<<127, 0, 0, 0, 0, 25, 212, 0, 19, 0, 78, 0, 0, 1, 121, 0, 0>>,
         44046>>,
       <<<<127, 0, 0, 0, 0, 25, 213, 0, 19, 0, 78, 0, 0, 1, 121, 0, 0>>,
         40981>>,
       <<<<127, 0, 0, 0, 0, 28, 103, 0, 21, 0, 83, 0, 0, 1, 124, 0, 0>>,
         24248>>
    >>

\* the longest payload of the harness: the 16 data bytes of a full message
MaxPayloadLen == 16

\* the payloads of the harness: n bytes of the pattern k
Payload(k, n) == [i \in 1..n |-> (k * i + 3 * k) % 256]

PayloadPatterns == {1, 37, 255}

MsgIds == {109, 126}

Offsets == {4, 12}

CodecInit ==
    /\ EngineInit
    /\ line = "up"
    /\ CodecIdle

\* for sample in samples: f8 = Fletcher(); f8.update(sample[0]); result = ...
TestSample(i) ==
    /\ f8' = FletcherUpdate(FletcherNew, samples[i][1])
    /\ tc' = [op |-> "sample", i |-> i, result |-> CheckValue[f8']]
    /\ UNCHANGED engineVars

\* raw_msg = create_msg_data(msg_id, offset, msg_data)
CreateMsg(msg_id, offset, msg_data) ==
    /\ tc' = [op |-> "create", msg_id |-> msg_id, offset |-> offset,
              msg_data |-> msg_data, raw |-> create_msg_data(msg_id, offset, msg_data)]
    /\ f8' = FletcherNew
    /\ UNCHANGED engineVars

\* the receiver of the frame: verify_msg_checksum(raw_msg)
VerifyMsg ==
    /\ tc.op = "create"
    /\ tc' = [tc EXCEPT !.op = "verify"] @@ [ok |-> verify_msg_checksum(tc.raw)]
    /\ f8' = FletcherUpdate(FletcherNew, Slice(tc.raw, 0, -2))
    /\ UNCHANGED engineVars

\* the identity of the device of this model, as its messages 0x00, 0x40 and 0x7e
\* leave it in Device State: series_id_raw, header_raw, serial_nb_raw and password_1
\* one after the other (2 + 8 + 14 + 4 bytes)
FingerprintBytes ==
    Slice(Body00, 4, 6) \o Slice(Body00, 1, 9) \o Slice(Body40, 1, 15)
        \o Slice(Body7e, 9, 13)

\* the bytes of FingerprintBytes calculate_challenge reads: all but password_1[2:4]
FingerprintReadLen == 26

\* Device State holding the identity f
Fingerprint(f) ==
    [series_id_raw |-> SubSeq(f, 1, 2), header_raw |-> SubSeq(f, 3, 10),
     serial_nb_raw |-> SubSeq(f, 11, 24), password_1 |-> SubSeq(f, 25, 28)]

\* the values a byte of the identity is given
ByteSamples == {0, 1, 128, 255}

\* challenge = self.calculate_challenge(), the byte at pos of the identity being v
Challenge(pos, v) ==
    /\ tc.op = "none"
    /\ LET ups == Fingerprint([FingerprintBytes EXCEPT ![pos] = v])
       IN  tc' = [op |-> "challenge", ups |-> ups, challenge |-> calculate_challenge(ups)]
    /\ f8' = FletcherNew
    /\ UNCHANGED engineVars

\* calculate_challenge on two identities that differ at most in the byte at pos
\* (v in the one, w in the other)
ChallengePair(pos, v, w) ==
    /\ tc.op = "none"
    /\ LET a == Fingerprint([FingerprintBytes EXCEPT ![pos] = v])
           b == Fingerprint([FingerprintBytes EXCEPT ![pos] = w])
       IN  tc' = [op |-> "pair", pos |-> pos, v |-> v, w |-> w, a |-> a, b |-> b,
                  ca |-> calculate_challenge(a), cb |-> calculate_challenge(b)]
    /\ f8' = FletcherNew
    /\ UNCHANGED engineVars

\* b with bit k flipped
FlipBit(b, k) == IF (b \div 2 ^ k) % 2 = 1 THEN b - 2 ^ k ELSE b + 2 ^ k

\* the frames whose bits are flipped: the device's, a caller's command, the challenge
FlipFrames ==
    (DeviceResponses \ {<<>>})
        \cup {create_msg_data(109, 4, <<0, 1>>), challenge_msg(Fingerprint(FingerprintBytes))}

\* verify_msg_checksum on the frame raw and on raw with bit k of byte i flipped
\* (i from 1, a byte before the two trailing check bytes)
VerifyFlipped(raw, i, k) ==
    /\ tc.op = "none"
    /\ LET flipped == [raw EXCEPT ![i] = FlipBit(raw[i], k)]
       IN  tc' = [op |-> "flip", raw |-> raw, i |-> i, k |-> k, flipped |-> flipped,
                  ok |-> verify_msg_checksum(raw),
                  ok_flipped |-> verify_msg_checksum(flipped)]
    /\ f8' = FletcherNew
    /\ UNCHANGED engineVars

\* id 0x4c with the load shedding bitfield raw: delays of 0 s, 90 s and 8 s
Body4c(raw) == <<76, 0, 0, 0, 90, 0, 0, 0, 8, 0, 0>> \o ToBytes2(raw) \o <<0, 0, 0, 0>>

\* id 0x6d as Body6d, with the replace test status and the calibration status given
Body6dWith(status, calibration) ==
    <<109, 3, 96, 200, 0, 0, 0>> \o ToBytes2(status) \o <<0, 0>>
        \o ToBytes2(calibration) \o <<0, 0, 14, 16>>

\* the values of the bitfields: none, single bits, several bits, a bit of no flag
LoadShedSamples == {0, 1, 16, 27, 32}

StatusSamples == {0, 3, 4, 68}

CalibrationSamples == {0, 4}

Bodies6d == {Body6dWith(st, ca) : st \in StatusSamples, ca \in CalibrationSamples}

\* id 0x6d as Body6d, with the bytes of the battery voltage (v0, v1) and of the
\* state of charge (s0, s1) given
Body6dLevels(v0, v1, s0, s1) ==
    <<109, v0, v1, s0, s1, 0, 0, 0, 68, 0, 0, 0, 0, 0, 0, 14, 16>>

\* the low bytes of these fields
LowByteSamples == {0, 255}

LevelBodies ==
    {Body6dLevels(v0, v1, s0, s1) :
        v0 \in ByteSamples, v1 \in LowByteSamples,
        s0 \in ByteSamples, s1 \in LowByteSamples}

DecodeBodies == {Body4c(raw) : raw \in LoadShedSamples} \cup Bodies6d \cup LevelBodies

\* Device State after handle_apc_msg decoded the frame of body into the Device
\* State __init__ leaves
Decoded(body) ==
    LET frame == DeviceFrame(body)
    IN  DecodeFields([k \in {"comm_state"} |-> "offline"],
                     Branch(frame[1], Slice(frame, 1, -2))).ups

\* handle_apc_msg on a fresh engine, on the frame of body
DecodeMsg(body) ==
    /\ tc.op = "none"
    /\ tc' = [op |-> "decode", msg |-> body, ups |-> Decoded(body)]
    /\ f8' = FletcherNew
    /\ UNCHANGED engineVars

\* handle_apc_msg on two fresh engines, on the frames of a and of b
DecodePair(a, b) ==
    /\ tc.op = "none"
    /\ tc' = [op |-> "decode_pair", a |-> a, b |-> b,
              ua |-> Decoded(a), ub |-> Decoded(b)]
    /\ f8' = FletcherNew
    /\ UNCHANGED engineVars

\* the longest input of the harness's update
MaxUpdateLen == 2

\* the byte values of these inputs
UpdateBytes == {0, 1, 254, 255}

UpdateInputs == UNION {[1..n -> UpdateBytes] : n \in 0..MaxUpdateLen}

\* f8 = Fletcher(); f8.update(bytestring)
Update(bytestring) ==
    /\ tc.op = "none"
    /\ f8' = FletcherUpdate(FletcherNew, bytestring)
    /\ tc' = [op |-> "update", bytestring |-> bytestring]
    /\ UNCHANGED engineVars

\* the inputs whose check bytes are appended: the short inputs of update, the
\* captures of testFletcher.py and the bodies of the device of this model
ZeroSumInputs ==
    UpdateInputs \cup {samples[i][1] : i \in 1..Len(samples)}
        \cup {Body00, Body40, Body41, Body42, Body6d, Body7e, BodyUnknown, BodyShort}

\* f = Fletcher(); f.update(m); then g = Fletcher(); g.update(m + [f.cb0, f.cb1])
ZeroSum(m) ==
    /\ tc.op = "none"
    /\ LET f == FletcherUpdate(FletcherNew, m)
       IN  /\ f8' = FletcherUpdate(FletcherNew, m \o <<f.cb0, f.cb1>>)
           /\ tc' = [op |-> "zero_sum", m |-> m, f |-> f]
    /\ UNCHANGED engineVars

\* the values a byte is replaced by: pairs at every distance modulo 255
SubstBytes == {0, 1, 127, 128, 254, 255}

\* the sequences in which one byte is substituted
SubstInputs == (UpdateInputs \ {<<>>}) \cup {samples[1][1], Body00, Body6d}

\* the check values of m with the byte at i (from 1) set to v, and set to w
SubstPair(m, i, v, w) ==
    /\ tc.op = "none"
    /\ LET a == [m EXCEPT ![i] = v]
           b == [m EXCEPT ![i] = w]
       IN  tc' = [op |-> "subst", i |-> i, a |-> a, b |-> b,
                  ca |-> CheckValue[FletcherUpdate(FletcherNew, a)],
                  cb |-> CheckValue[FletcherUpdate(FletcherNew, b)]]
    /\ f8' = FletcherNew
    /\ UNCHANGED engineVars

\* create_msg_data on two payloads of the same length: n bytes of the pattern k,
\* and the same with byte i (from 1) set to v
CreatePair(k, n, i, v) ==
    /\ tc.op = "none"
    /\ LET a == Payload(k, n)
           b == [a EXCEPT ![i] = v]
       IN  tc' = [op |-> "create_pair", a |-> a, b |-> b,
                  ra |-> create_msg_data(109, 4, a),
                  rb |-> create_msg_data(109, 4, b)]
    /\ f8' = FletcherNew
    /\ UNCHANGED engineVars

CodecNext ==
    \/ \E i \in 1..Len(samples) : TestSample(i)
    \/ \E k \in PayloadPatterns, n \in 0..MaxPayloadLen, m \in MsgIds, o \in Offsets :
         CreateMsg(m, o, Payload(k, n))
    \/ VerifyMsg
    \/ \E pos \in 1..FingerprintReadLen, v \in ByteSamples : Challenge(pos, v)
    \/ \E pos \in 1..FingerprintReadLen, v \in ByteSamples, w \in ByteSamples :
         ChallengePair(pos, v, w)
    \/ \E raw \in FlipFrames, k \in 0..7 :
         \E i \in 1..(Len(raw) - 2) : VerifyFlipped(raw, i, k)
    \/ \E bytestring \in UpdateInputs : Update(bytestring)
    \/ \E body \in DecodeBodies : DecodeMsg(body)
    \/ \E a \in Bodies6d, b \in Bodies6d : DecodePair(a, b)
    \/ \E m \in ZeroSumInputs : ZeroSum(m)
    \/ \E m \in SubstInputs, v \in SubstBytes, w \in SubstBytes :
         \E i \in 1..Len(m) : SubstPair(m, i, v, w)
    \/ \E k \in PayloadPatterns, n \in 1..MaxPayloadLen, v \in ByteSamples :
         \E i \in 1..n : CreatePair(k, n, i, v)

CodecSpec == CodecInit /\ [][CodecNext]_vars

----------------------------------------------------------------------------
(* The decoder of handle_apc_msg statement by statement, and the CLI thread      *)
(* that reads Device State while it runs (ApcCLI.print_keys). tc holds the       *)
(* statements the handler has still to run and what the reader printed last.    *)

\* the messages the device sends here
ReaderBodies ==
    {Body6dWith(0, 0), Body6dWith(4, 0), Body6dWith(68, 0), Body4c(0), Body4c(27)}

\* the flag lists of these messages
FlagListKeys == {"battery_replacetest_status", "runtime_calibration_status",
                 "loadshed_config"}

ReaderInit ==
    /\ EngineInit
    /\ line = "full"
    /\ f8 = FletcherNew
    /\ tc = [op |-> "reader", msg |-> <<>>, todo |-> <<>>,
             key |-> "none", val |-> <<>>, during |-> <<>>]

\* handle_apc_msg is called with the frame of body and reaches the branch of its id
HandleBegin(body) ==
    /\ tc.todo = <<>>
    /\ LET frame == DeviceFrame(body)
       IN  tc' = [tc EXCEPT !.msg = body,
                            !.todo = Branch(frame[1], Slice(frame, 1, -2))]
    /\ UNCHANGED <<engineVars, f8>>

\* the next statement of the branch
HandleStep ==
    /\ tc.todo # <<>>
    /\ ~Raises(ups_state, Head(tc.todo))
    /\ ups_state' = Apply(ups_state, Head(tc.todo))
    /\ tc' = [tc EXCEPT !.todo = Tail(tc.todo)]
    /\ UNCHANGED <<state, prev_state, next_apc_msg, running, pc_run, rcv_data, result,
                   reply, cpc, cret, line, wire, io, sent, allEmpty, comm_written, f8>>

\* print_keys: str(self.apc_comm.ups_state.get(key, "Unknown")), for a flag list
\* that is there; during is the message the handler is decoding, if it is
PrintKey(key) ==
    /\ key \in DOMAIN ups_state
    /\ tc' = [tc EXCEPT !.key = key, !.val = ups_state[key],
                        !.during = IF tc.todo # <<>> THEN tc.msg ELSE <<>>]
    /\ UNCHANGED <<engineVars, f8>>

ReaderNext ==
    \/ \E body \in ReaderBodies : HandleBegin(body)
    \/ HandleStep
    \/ \E key \in FlagListKeys : PrintKey(key)

ReaderSpec == ReaderInit /\ [][ReaderNext]_vars

----------------------------------------------------------------------------
(* Properties *)

\* C1: whenever send_apc_msg returns True, the poll loop has written the caller's
\* frame to the transport between the call and the return.
C1_TrueMeansWritten ==
    \A c \in Callers : cret[c] = "True" => sent[c]

\* C2: a caller's pending frame is never overwritten by another caller's frame:
\* while the slot holds one caller's frame, no other caller's frame replaces it.
C2_NoOverwrite ==
    [][\A c \in Callers :
         next_apc_msg.obj = c => next_apc_msg'.obj \notin (Callers \ {c})]_vars

\* C3: a caller waiting in send_apc_msg when the connection is in Init and the line
\* returns only empty responses is eventually released (as long as the poll loop is
\* still running: it was not told to stop and has not died).
C3_WaiterReleased ==
    \A c \in Callers :
        (cpc[c] = "wait" /\ state = INIT /\ line = "down")
            ~> (cpc[c] = "done" \/ ~running \/ pc_run = "crashed")

\* C4: send_apc_msg called while the state is Init, InitReset or Mode0 returns False
\* at once, and leaves the pending-command slot, the connection state and Device
\* State as they were.
C4_RejectedUnchanged ==
    [][\A c \in Callers :
         (cpc[c] = "check" /\ cpc'[c] # "check" /\ state \in {INIT, INIT_RESET, MODE0})
            => /\ cpc'[c] = "done"
               /\ cret'[c] = "False"
               /\ next_apc_msg' = next_apc_msg
               /\ state' = state
               /\ ups_state' = ups_state]_vars

\* a caller was rejected in Mode0, after the engine had decoded messages
C4_Witness ==
    /\ cpc["c1"] = "done"
    /\ cret["c1"] = "False"
    /\ state = MODE0
    /\ "header_raw" \in DOMAIN ups_state

\* C5: a caller's frame is written only in Mode1; every write made in Init,
\* InitReset or Mode0 is a control sequence or the challenge frame.
C5_CallerFrameOnlyInMode1 ==
    wire.at \in {INIT, INIT_RESET, MODE0}
        => /\ wire.obj \notin Callers
           /\ \/ wire.bytes \in {<<>>, <<247, 253>>, <<253>>, <<254>>, <<247>>}
              \/ wire.obj = "challenge_msg"

\* C6: the state becomes Mode1 only in a Mode0 cycle that received a checksum-valid
\* message 0x7f, wrote a challenge frame of id 0x7e and read a non-empty reply whose
\* first byte is 0x7e; after any other reply handle_apc_msg returns False, the state
\* is not Mode1 and the cycle ends in Init.
C6_Mode1OnlyByChallenge ==
    [][/\ (state' = MODE1 /\ state # MODE1)
            => /\ pc_run = "chal_recv"
               /\ state = MODE0
               /\ prev_state = MODE0
               /\ verify_msg_checksum(rcv_data)
               /\ rcv_data[1] = 127
               /\ wire.at = MODE0
               /\ wire.bytes[1] = 126
               /\ verify_msg_checksum(wire.bytes)
               /\ Len(reply') > 0
               /\ reply'[1] = 126
       /\ (pc_run = "chal_recv" /\ pc_run' # "chal_recv"
              /\ ~(Len(reply') > 0 /\ reply'[1] = 126))
            => /\ state' # MODE1
               /\ result' = FALSE
               /\ pc_run' = "finish"
       /\ (pc_run = "finish" /\ pc_run' = "top" /\ ~result)
            => state' \in {INIT, INIT_RESET}
       /\ (pc_run = "finish" /\ pc_run' = "top" /\ ~result /\ prev_state = MODE0)
            => state' = INIT]_vars

\* the challenge was just accepted
C6_Witness ==
    /\ state = MODE1
    /\ prev_state = MODE0
    /\ pc_run = "chal_next"
    /\ reply[1] = 126

\* C7: every frame of create_msg_data passes verify_msg_checksum and splits back
\* into the id, the offset, the length and the payload it was built from.
C7_RoundTrip ==
    tc.op = "verify"
        => /\ tc.ok
           /\ tc.raw[1] = tc.msg_id
           /\ tc.raw[2] = tc.offset
           /\ tc.raw[3] = Len(tc.msg_data)
           /\ Slice(tc.raw, 3, -2) = tc.msg_data

\* C8: a fresh Fletcher updated with the body of a fixture gives (cb0 << 8) + cb1
\* equal to the fixture's captured check value, for each of the thirteen fixtures.
C8_KnownVectors ==
    tc.op = "sample" => tc.result = samples[tc.i][2]

\* C9: at every boundary between poll cycles comm_state is 'online' exactly when
\* the state is Mode0 or Mode1 and 'offline' exactly when it is Init or InitReset,
\* and a cycle assigns comm_state exactly when its end state differs from the end
\* state of the cycle before.
C9_CommStateTracksState ==
    /\ [](pc_run = "top"
            => /\ (ups_state["comm_state"] = "online") <=> (state \in {MODE0, MODE1})
               /\ (ups_state["comm_state"] = "offline") <=> (state \in {INIT, INIT_RESET}))
    /\ [][(pc_run = "finish" /\ pc_run' = "top")
            => (comm_written' <=> (state' # prev_state))]_vars
    /\ [][ups_state'["comm_state"] # ups_state["comm_state"]
            => (pc_run = "finish" /\ state' # prev_state)]_vars

\* the engine went online and fell back: a boundary at which comm_state has been
\* assigned twice
C9_Witness ==
    /\ pc_run = "top"
    /\ comm_written
    /\ state = INIT
    /\ ups_state["comm_state"] = "offline"
    /\ ~allEmpty

\* C10: with a transport that returns empty on every read the state goes from Init
\* to InitReset and then alternates between InitReset and Init in every cycle, for
\* as long as the loop runs, and never reaches Mode0 or Mode1.
C10_EmptyTransportOscillates ==
    /\ [](allEmpty => state \in {INIT, INIT_RESET})
    /\ [][(allEmpty' /\ pc_run = "finish" /\ pc_run' = "top")
            => /\ state = INIT => state' = INIT_RESET
               /\ state = INIT_RESET => state' = INIT]_vars
    /\ (line = "down")
            => \/ <>(~running)
               \/ ([]<>(state = INIT_RESET) /\ []<>(state = INIT))

\* back in Init after a reset cycle, every read so far empty
C10_Witness ==
    /\ allEmpty
    /\ line = "down"
    /\ state = INIT
    /\ pc_run = "top"
    /\ wire.bytes = <<253>>

\* C11: no response is fatal to the poll loop: whatever the responses and their
\* order, the thread of run never dies of an exception.
C11_NeverFatal ==
    pc_run # "crashed"

\* C12: in Mode0 and Mode1 a non-empty response that fails the checksum is not
\* decoded: handle_apc_msg leaves Device State and the state as they are and queues
\* the back control, the cycle ends in the state it began in, and the next write is
\* F7 unless a caller's store replaced the queued control first.
C12_BadChecksumQueuesBack ==
    /\ [][(pc_run = "handle" /\ pc_run' # "handle" /\ state \in {MODE0, MODE1}
              /\ Len(rcv_data) > 0 /\ ~Verified[rcv_data])
            => /\ ups_state' = ups_state
               /\ state' = state
               /\ next_apc_msg' = APC_CMD_BACK
               /\ result' = TRUE
               /\ pc_run' = "finish"]_vars
    /\ [][(pc_run = "finish" /\ pc_run' = "top" /\ prev_state \in {MODE0, MODE1}
              /\ Len(rcv_data) > 0 /\ ~Verified[rcv_data])
            => /\ state' = prev_state
               /\ ups_state' = ups_state]_vars
    /\ [][(next_apc_msg = APC_CMD_BACK /\ next_apc_msg' # APC_CMD_BACK
              /\ pc_run \in {"finish", "top", "send"})
            => \E c \in Callers : cpc[c] = "store" /\ cpc'[c] = "wait"]_vars
    /\ [][(pc_run = "send" /\ pc_run' = "recv" /\ state \in {MODE0, MODE1}
              /\ next_apc_msg = APC_CMD_BACK)
            => wire'.bytes = <<247>>]_vars

\* the back control was written in Mode1, after a frame that failed the checksum
C12_Witness ==
    /\ pc_run = "recv"
    /\ state = MODE1
    /\ wire.at = MODE1
    /\ wire.bytes = <<247>>

\* C13: in Init the engine writes F7 FD; a checksum-valid response moves it to
\* Mode0, an empty response or one that fails the checksum moves it to InitReset.
C13_InitTransitions ==
    [][(pc_run = "finish" /\ pc_run' = "top" /\ prev_state = INIT)
         => /\ wire.bytes = <<247, 253>>
            /\ IF Len(rcv_data) > 0 /\ Verified[rcv_data]
               THEN state' = MODE0
               ELSE state' = INIT_RESET]_vars

\* C14: in Mode0 and Mode1 an empty response (to the cycle's write, or to the
\* challenge) puts the state to Init and comm_state to 'offline' by the end of the
\* cycle.
C14_EmptyForcesInit ==
    [][(pc_run = "finish" /\ pc_run' = "top" /\ prev_state \in {MODE0, MODE1}
          /\ (rcv_data = <<>> \/ (wire.obj = "challenge_msg" /\ reply = <<>>)))
         => /\ state' = INIT
            /\ ups_state'["comm_state"] = "offline"]_vars

\* a Mode1 cycle just ended in Init, offline, after an empty read
C14_Witness ==
    /\ pc_run = "top"
    /\ state = INIT
    /\ wire.at = MODE1
    /\ comm_written
    /\ ups_state["comm_state"] = "offline"

\* C15: a checksum-valid message whose id is in no branch of the decoder is
\* accepted: handle_apc_msg returns True, leaves every field of Device State and the
\* state as they are and assigns the keep-alive; in Mode0 and Mode1 the cycle ends
\* in the state it began in.
C15_UnknownIdAccepted ==
    /\ [][(pc_run = "handle" /\ pc_run' # "handle" /\ Len(rcv_data) > 0
              /\ Verified[rcv_data] /\ rcv_data[1] \notin DecodeTable)
            => /\ pc_run' = "finish"
               /\ result' = TRUE
               /\ ups_state' = ups_state
               /\ state' = state
               /\ next_apc_msg' = APC_CMD_NEXT]_vars
    /\ [][(pc_run = "finish" /\ pc_run' = "top" /\ prev_state \in {MODE0, MODE1}
              /\ Len(rcv_data) > 0 /\ Verified[rcv_data]
              /\ rcv_data[1] \notin DecodeTable)
            => /\ state' = prev_state
               /\ ups_state' = ups_state]_vars

\* a message of an unknown id was handled in Mode1, after the identity was decoded
C15_Witness ==
    /\ pc_run = "finish"
    /\ state = MODE1
    /\ rcv_data = DeviceFrame(BodyUnknown)
    /\ result
    /\ next_apc_msg = APC_CMD_NEXT
    /\ "serial_nb" \in DOMAIN ups_state

\* C19: for every id but the second halves 0x42 and 0x44, decoding the message that
\* was just decoded once more leaves Device State as it is.
C19_DecodeIdempotent ==
    [][(pc_run = "handle" /\ pc_run' \in {"finish", "chal_recv"} /\ Len(rcv_data) > 0
          /\ Verified[rcv_data] /\ rcv_data[1] \notin {66, 68})
         => DecodeFields(ups_state', Branches[rcv_data])
              = [ups |-> ups_state', raised |-> FALSE]]_vars

\* the message 0x6d was decoded: its flag lists are filled, and a second decode of
\* it gives the same Device State
C19_Witness ==
    /\ pc_run = "finish"
    /\ rcv_data = DeviceFrame(Body6d)
    /\ result
    /\ "battery_replacetest_status" \in DOMAIN ups_state
    /\ ups_state["battery_replacetest_status"]
          = <<"PASSED", "SOURCE PROTOCOL", "SOURCE PROTOCOL">>
    /\ ups_state["runtime_calibration_status"] = <<"PASSED">>
    /\ DecodeFields(ups_state, Branches[rcv_data]).ups = ups_state

\* the sum of s[1..k]
RECURSIVE PrefixSum(_, _)
PrefixSum(s, k) == IF k = 0 THEN 0 ELSE PrefixSum(s, k - 1) + s[k]

\* the reference of C16 in closed form: over the bytes x of the header, the serial
\* number and the first two password bytes in this order, b0 after k bytes is the
\* seed plus x[1..k] mod 255, and b1 is its seed plus all these b0 mod 255
ChallengeReference(ups) ==
    LET x      == ups["header_raw"] \o ups["serial_nb_raw"]
                    \o SubSeq(ups["password_1"], 1, 2)
        b0     == [k \in 1..Len(x) |-> (ups["series_id_raw"][2] + PrefixSum(x, k)) % 255]
    IN  <<1, 1, b0[Len(x)], (ups["series_id_raw"][1] + PrefixSum(b0, Len(x))) % 255>>

\* C16: calculate_challenge returns [0x01, 0x01, b0, b1] with b0 seeded by the second
\* series-id byte and b1 by the first, run over the 8 header bytes, the 14 serial
\* number bytes and the first 2 bytes of password_1 in this order with
\* b0 = (b0 + x) mod 255, b1 = (b1 + b0) mod 255.
C16_ChallengeMatchesReference ==
    tc.op = "challenge" => tc.challenge = ChallengeReference(tc.ups)

\* the challenge of an identity of 8 header bytes and 14 serial number bytes, the
\* last of them 0xff
C16_Witness ==
    /\ tc.op = "challenge"
    /\ Len(tc.ups["header_raw"]) = 8
    /\ Len(tc.ups["serial_nb_raw"]) = 14
    /\ tc.ups["serial_nb_raw"][14] = 255
    /\ tc.challenge = ChallengeReference(tc.ups)
    /\ tc.challenge # <<1, 1, 0, 0>>

\* C17 as stated: identical identities give identical challenges, and two identities
\* that differ in exactly one byte give different challenges.
C17_ChallengeSensitive ==
    tc.op = "pair" => ((tc.a = tc.b) <=> (tc.ca = tc.cb))

\* C17, amended: identical identities give identical challenges; two identities that
\* differ in exactly one byte the calculation reads give different challenges unless
\* the two values of that byte are congruent modulo 255 (0x00 and 0xff), and then
\* they give the same challenge.
C17_ChallengeSensitiveMod255 ==
    tc.op = "pair"
        => /\ (tc.a = tc.b) => (tc.ca = tc.cb)
           /\ (tc.v % 255 # tc.w % 255) => (tc.a # tc.b /\ tc.ca # tc.cb)
           /\ (tc.v % 255 = tc.w % 255) => (tc.ca = tc.cb)

\* two identities that differ in the second password byte, and their challenges
C17_Witness ==
    /\ tc.op = "pair"
    /\ tc.pos = 26
    /\ tc.a # tc.b
    /\ tc.ca # tc.cb

\* C18: once running is False the loop starts no further cycle (it completes at
\* most the one in progress, and writes nothing once stopped), and its thread ends.
C18_CooperativeShutdown ==
    /\ [][~running => ~(pc_run = "top" /\ pc_run' = "send")]_vars
    /\ [][~running => (pc_run \in {"top", "stopped"} => wire' = wire)]_vars
    /\ [][pc_run = "stopped" => (pc_run' = "stopped" /\ wire' = wire)]_vars
    /\ (~running) ~> (pc_run \in {"stopped", "crashed"})

\* the loop has stopped in Mode1
C18_Witness ==
    /\ ~running
    /\ pc_run = "stopped"
    /\ state = MODE1

\* C20: for every frame verify_msg_checksum accepts, the frame with any single bit
\* of any byte before the two trailing check bytes flipped is not accepted.
C20_BitFlipDetected ==
    tc.op = "flip" => (tc.ok => ~tc.ok_flipped)

\* a flip of the top bit of the last data byte of the device's 0x7f message
C20_Witness ==
    /\ tc.op = "flip"
    /\ tc.raw = DeviceFrame(Body7f)
    /\ tc.i = 17
    /\ tc.k = 7
    /\ tc.ok
    /\ ~tc.ok_flipped

\* C21: after update the check bytes are cb0 = (255 - (c0 + c1) mod 255) mod 255 and
\* cb1 = (255 - (c0 + cb0) mod 255) mod 255, each in 0..254; the empty input gives
\* cb0 = cb1 = 0.
C21_CheckBytesReduced ==
    tc.op = "update"
        => /\ f8.cb0 = (255 - ((f8.c0 + f8.c1) % 255)) % 255
           /\ f8.cb1 = (255 - ((f8.c0 + f8.cb0) % 255)) % 255
           /\ f8.cb0 \in 0..254
           /\ f8.cb1 \in 0..254
           /\ (tc.bytestring = <<>> => f8.cb0 = 0 /\ f8.cb1 = 0)

\* C22: no step removes a key from ups_state: the set of its field names only
\* grows, over poll cycles, responses, submissions and resets to Init.
C22_KeysOnlyGrow ==
    [][DOMAIN ups_state \subseteq DOMAIN ups_state']_vars

\* back in Init after a reset, offline, with the identity still in Device State
C22_Witness ==
    /\ state = INIT
    /\ prev_state = INIT
    /\ ups_state["comm_state"] = "offline"
    /\ {"header_raw", "serial_nb_raw", "password_1"} \subseteq DOMAIN ups_state

\* C23: every write to the transport and every change of Device State is a step of
\* the poll loop; a step of send_apc_msg changes nothing of the engine but the
\* pending-command slot.
C23_OnlyLoopWrites ==
    /\ [][(wire' # wire \/ ups_state' # ups_state)
            => /\ pc_run \in {"send", "handle", "finish"}
               /\ pc_run' # pc_run
               /\ cpc' = cpc
               /\ cret' = cret]_vars
    /\ [][(cpc' # cpc \/ cret' # cret)
            => UNCHANGED <<wire, ups_state, state, prev_state, running, pc_run,
                           rcv_data, result, reply>>]_vars

\* a caller stored its frame and the poll loop wrote it
C23_Witness ==
    \E c \in Callers :
        /\ cpc[c] = "wait"
        /\ sent[c]
        /\ wire.obj = c
        /\ wire.bytes = raw_msg(c).bytes

\* C25 as stated: after the write of the challenge frame, a reply that carries the
\* id of the message that triggered the challenge (0x7f) moves the engine to Mode1.
C25_ReplySameIdAsTrigger ==
    [][(pc_run = "chal_recv" /\ pc_run' # "chal_recv"
           /\ Len(reply') > 0 /\ reply'[1] = rcv_data[1])
         => state' = MODE1]_vars

\* C25, amended: after the write of the challenge frame the engine moves to Mode1
\* exactly if the reply carries the id of the challenge frame it has just written
\* (0x7e); a reply with the id of the triggering message (0x7f) makes the handler
\* return False.
C25_ReplyEchoesChallengeId ==
    [][(pc_run = "chal_recv" /\ pc_run' # "chal_recv")
         => /\ rcv_data[1] = 127
            /\ wire.bytes[1] = 126
            /\ (state' = MODE1) <=> (Len(reply') > 0 /\ reply'[1] = wire.bytes[1])
            /\ (Len(reply') > 0 /\ reply'[1] = rcv_data[1])
                  => (state' = MODE0 /\ ~result' /\ pc_run' = "finish")]_vars

\* the device's 0x7e message answered the challenge frame
C25_Witness ==
    /\ pc_run = "chal_next"
    /\ wire.obj = "challenge_msg"
    /\ reply = DeviceFrame(Body7e)
    /\ state = MODE1

\* C26: whenever calculate_challenge runs (handle_apc_msg is given a checksum-valid
\* message 0x7f in Mode0), series_id_raw, header_raw, serial_nb_raw and password_1
\* are in Device State.
C26_FingerprintPresent ==
    (pc_run = "handle" /\ state = MODE0 /\ Len(rcv_data) > 0
        /\ Verified[rcv_data] /\ rcv_data[1] = 127)
      => FingerprintKeys \subseteq DOMAIN ups_state

\* C27: a checksum-valid message 0x7f handled in Mode0 is followed at once by the
\* write of the 9-byte frame 7e 0c 04 01 01 b0 b1 and its check value (or, with the
\* identity incomplete, by the end of the thread, which writes nothing more); in
\* Init, InitReset and Mode1 it causes no write; the challenge frame is written
\* nowhere else.
C27_ChallengeOnlyInMode0 ==
    /\ [][(pc_run = "handle" /\ pc_run' # "handle" /\ Len(rcv_data) > 0
              /\ Verified[rcv_data] /\ rcv_data[1] = 127)
            => IF state = MODE0
               THEN \/ /\ ~ChallengeOk(ups_state)
                       /\ pc_run' = "crashed"
                       /\ wire' = wire
                    \/ /\ ChallengeOk(ups_state)
                       /\ pc_run' = "chal_recv"
                       /\ Len(wire'.bytes) = 9
                       /\ SubSeq(wire'.bytes, 1, 7)
                            = <<126, 12, 4>> \o ChallengeReference(ups_state)
                       /\ SubSeq(wire'.bytes, 8, 9)
                            = ToBytes2(CheckValue[FletcherUpdate(FletcherNew,
                                                   SubSeq(wire'.bytes, 1, 7))])
               ELSE /\ wire' = wire
                    /\ pc_run' = "finish"]_vars
    /\ [][(wire' # wire /\ wire'.bytes[1] = 126)
            => /\ pc_run = "handle"
               /\ state = MODE0
               /\ Verified[rcv_data]
               /\ rcv_data[1] = 127]_vars
    /\ [][pc_run = "crashed" => wire' = wire]_vars

\* the challenge frame is the last write, in Mode0
C27_Witness ==
    /\ pc_run = "chal_recv"
    /\ state = MODE0
    /\ rcv_data = DeviceFrame(Body7f)
    /\ wire.bytes = <<126, 12, 4, 1, 1, 176, 143>>
                       \o ToBytes2(calc_checksum(<<126, 12, 4, 1, 1, 176, 143>>))

\* C28 as stated: at the end of every Mode1 cycle the slot holds the keep-alive
\* byte FE, whatever the response was.
C28_SlotKeepAliveAfterCycle ==
    [][(pc_run = "finish" /\ pc_run' = "top" /\ prev_state = MODE1)
         => next_apc_msg'.bytes = <<254>>]_vars

\* C28, amended: in every Mode1 cycle the slot is set to the keep-alive after the
\* read; at the end of the cycle it holds the keep-alive after a checksum-valid
\* response, the back control F7 after a response that fails the checksum and the
\* reset control FD after an empty response, unless a caller has stored its frame
\* since.
C28_SlotAfterCycle ==
    /\ [][(pc_run = "reset" /\ pc_run' = "handle")
            => (state = MODE1 /\ next_apc_msg' = APC_CMD_NEXT)]_vars
    /\ [][(pc_run = "finish" /\ pc_run' = "top" /\ prev_state = MODE1)
            => \/ next_apc_msg'.obj \in Callers
               \/ next_apc_msg' = IF Len(rcv_data) = 0 THEN APC_CMD_RESET
                                  ELSE IF Verified[rcv_data] THEN APC_CMD_NEXT
                                  ELSE APC_CMD_BACK]_vars

\* a Mode1 cycle that read nothing is about to end, the reset control in the slot
C28_Witness ==
    /\ pc_run = "finish"
    /\ prev_state = MODE1
    /\ rcv_data = <<>>
    /\ next_apc_msg = APC_CMD_RESET

\* the number of bits set in raw
RECURSIVE PopCount(_)
PopCount(raw) == IF raw = 0 THEN 0 ELSE (raw % 2) + PopCount(raw \div 2)

\* the list has no name twice
NoRepeat(list) == \A i, j \in 1..Len(list) : list[i] = list[j] => i = j

\* C29: a decoded flag list holds one flag for each set bit at most, none twice,
\* and is empty when no bit is set (battery_replacetest_status: ['UNKNOWN']); for
\* loadshed_config and battery_replacetest_status.
C29_FlagsIndependent ==
    tc.op = "decode"
        => /\ "loadshed_config" \in DOMAIN tc.ups
                => /\ Len(tc.ups["loadshed_config"])
                        <= PopCount(tc.ups["loadshed_config_raw"])
                   /\ NoRepeat(tc.ups["loadshed_config"])
           /\ "battery_replacetest_status" \in DOMAIN tc.ups
                => IF tc.ups["battery_replacetest_status_raw"] = 0
                   THEN tc.ups["battery_replacetest_status"] = <<"UNKNOWN">>
                   ELSE /\ Len(tc.ups["battery_replacetest_status"])
                             <= PopCount(tc.ups["battery_replacetest_status_raw"])
                        /\ NoRepeat(tc.ups["battery_replacetest_status"])

\* C30: two 0x6d messages that agree on payload bytes 10..11 give the same
\* runtime_calibration_status, and battery_replacetest_status holds what its own
\* bits decode to and nothing from the decoding of the calibration field.
C30_CalibrationIndependent ==
    tc.op = "decode_pair"
        => /\ Slice(tc.a, 11, 13) = Slice(tc.b, 11, 13)
                => tc.ua["runtime_calibration_status"]
                     = tc.ub["runtime_calibration_status"]
           /\ Len(tc.ua["battery_replacetest_status"])
                = IF tc.ua["battery_replacetest_status_raw"] = 0 THEN 1
                  ELSE PopCount(tc.ua["battery_replacetest_status_raw"] % 4096)

\* the lists the messages of the device decode to under key
CompleteLists(key) ==
    {Decoded(body)[key] : body \in {b \in ReaderBodies : key \in DOMAIN Decoded(b)}}

\* C24: a reader concurrent with the poll loop sees every flag list as a whole: what
\* it reads is a list some message decodes to, never an empty or shorter one.
C24_NoPartialField ==
    tc.key \in FlagListKeys => tc.val \in CompleteLists(tc.key)

C34_WrittenOnceThenReleased ==
    /\ [][\A c \in Callers :
            (pc_run = "send" /\ pc_run' = "recv" /\ wire'.obj = c) => ~sent[c]]_vars
    /\ [][\A c \in Callers :
            (pc_run = "finish" /\ pc_run' = "top" /\ sent[c])
                => next_apc_msg'.obj # c]_vars

----------------------------------------------------------------------------
\* the text of the data bytes of a 17-byte body
BodyText(body) == Slice(body, 1, 17)

\* C31: two-part strings assemble in order. A checksum-valid 0x41 sets ups_type
\* to its own text, whatever ups_type held before; a checksum-valid 0x42 appends
\* its text to the value it finds; so a 0x42 that follows a 0x41 leaves exactly
\* the two halves of that round, first half first.
C31_TwoPartStringsInOrder ==
    /\ [][(pc_run = "handle" /\ pc_run' = "finish" /\ Len(rcv_data) > 0
            /\ Verified[rcv_data] /\ rcv_data[1] = 65)
             => ups_state'["ups_type"].str = Slice(rcv_data, 1, -2)]_vars
    /\ [][(pc_run = "handle" /\ pc_run' = "finish" /\ Len(rcv_data) > 0
            /\ Verified[rcv_data] /\ rcv_data[1] = 66
            /\ "ups_type" \in DOMAIN ups_state)
             => ups_state'["ups_type"].str
                  = ups_state["ups_type"].str \o Slice(rcv_data, 1, -2)]_vars
    /\ [][(pc_run = "handle" /\ pc_run' = "finish"
            /\ rcv_data = DeviceFrame(Body42)
            /\ "ups_type" \in DOMAIN ups_state
            /\ ups_state["ups_type"].str = BodyText(Body41))
             => ups_state'["ups_type"].str = BodyText(Body41) \o BodyText(Body42)]_vars

\* a round completed: 0x42 was decoded and ups_type is the two halves
C31_Witness ==
    /\ pc_run = "finish"
    /\ rcv_data = DeviceFrame(Body42)
    /\ "ups_type" \in DOMAIN ups_state
    /\ ups_state["ups_type"].str = BodyText(Body41) \o BodyText(Body42)

----------------------------------------------------------------------------
\* C32: decoding 0x6d sets battery_voltage to the signed big-endian 16-bit value
\* of payload bytes 0..1 over 2^5 and battery_soc to the unsigned big-endian
\* 16-bit value of payload bytes 2..3 over 2^9: battery_soc is never negative, and
\* battery_voltage is negative exactly when the top bit of byte 0 is set.
C32_BatteryLevels ==
    (tc.op = "decode" /\ tc.msg[1] = 109)
        => LET v0 == tc.msg[2]
               v1 == tc.msg[3]
               s0 == tc.msg[4]
               s1 == tc.msg[5]
               voltage == tc.ups["battery_voltage"]
               soc == tc.ups["battery_soc"]
           IN  /\ voltage.den = 32
               /\ voltage.num = IF v0 >= 128 THEN 256 * v0 + v1 - 65536
                                ELSE 256 * v0 + v1
               /\ soc.den = 512
               /\ soc.num = 256 * s0 + s1
               /\ soc.num >= 0
               /\ voltage.num < 0 <=> v0 >= 128

\* a 0x6d message whose voltage has the top bit set and whose state of charge has
\* it set too was decoded: the one is negative, the other is not
C32_Witness ==
    /\ tc.op = "decode"
    /\ tc.msg = Body6dLevels(255, 0, 128, 255)
    /\ tc.ups["battery_voltage"] = [num |-> -256, den |-> 32]
    /\ tc.ups["battery_soc"] = [num |-> 33023, den |-> 512]

----------------------------------------------------------------------------
\* the changes of state a cycle may make
CycleEdges ==
    {<<INIT, MODE0>>, <<INIT, INIT_RESET>>,
     <<INIT_RESET, MODE0>>, <<INIT_RESET, INIT>>,
     <<MODE0, MODE0>>, <<MODE0, MODE1>>, <<MODE0, INIT>>,
     <<MODE1, MODE1>>, <<MODE1, INIT>>}

\* C35: from the state at the top of a cycle to the state at its end the engine
\* goes Init to Mode0 or InitReset, InitReset to Mode0 or Init, Mode0 to Mode0,
\* Mode1 or Init, Mode1 to Mode1 or Init; the state at the top of a cycle is the
\* state the cycle before ended in; and no step inside a cycle changes the state
\* other than along one of these edges (Mode1 is entered from Mode0 only).
C35_StateEdges ==
    /\ [][(pc_run = "finish" /\ pc_run' = "top")
             => /\ <<prev_state, state'>> \in CycleEdges
                /\ prev_state' = state']_vars
    /\ [][pc_run = "top" => state = prev_state]_vars
    /\ [][state' # state => <<state, state'>> \in CycleEdges]_vars
    /\ [][(state' = MODE1 /\ state # MODE1) => (state = MODE0 /\ prev_state = MODE0)]_vars

\* the cycle that answered the challenge has ended: Mode0 to Mode1
C35_Witness ==
    /\ pc_run = "top"
    /\ state = MODE1
    /\ prev_state = MODE1
    /\ wire.obj = "challenge_msg"
    /\ wire.at = MODE0

----------------------------------------------------------------------------
\* C36: on a line whose every read is a non-empty frame that fails the checksum,
\* the first cycle takes the engine from Init to Mode0 and comm_state to 'online';
\* from then on the state is Mode0, every write is the back byte F7, the state
\* never is Init again and Device State holds comm_state only; and unless the loop
\* is stopped it goes on writing F7 for ever.
C36_BadLineStaysInMode0 ==
    /\ [][(pc_run = "finish" /\ pc_run' = "top" /\ prev_state = INIT)
             => /\ state' = MODE0
                /\ ups_state'["comm_state"] = "online"]_vars
    /\ [][state # INIT => state' = MODE0]_vars
    /\ [](state = MODE0 => ups_state["comm_state"] = "online")
    /\ [](state \in {INIT, MODE0})
    /\ [][(pc_run = "send" /\ pc_run' = "recv" /\ state = MODE0)
             => /\ wire'.bytes = <<247>>
                /\ next_apc_msg = APC_CMD_BACK]_vars
    /\ [](DOMAIN ups_state = {"comm_state"})
    /\ \/ <>(~running)
       \/ /\ <>[](state = MODE0)
          /\ []<>(pc_run = "recv" /\ wire.bytes = <<247>>)
          /\ []<>(pc_run = "top")

\* a Mode0 cycle on the garbling line: F7 was written from the slot, and the frame
\* read fails the checksum
C36_Witness ==
    /\ line = "bad"
    /\ pc_run = "handle"
    /\ state = MODE0
    /\ prev_state = MODE0
    /\ wire.bytes = <<247>>
    /\ rcv_data = BadHeader
    /\ ~Verified[rcv_data]
    /\ ups_state = [k \in {"comm_state"} |-> "online"]

----------------------------------------------------------------------------
\* C37: when no caller submits a command the slot holds FE (next), F7 (back) or FD
\* (reset) only, and what Mode0 and Mode1 write from the slot is FE or F7: the
\* reset byte stored after an empty response is never written from the slot.
C37_SlotWithoutCallers ==
    /\ [](next_apc_msg \in {APC_CMD_NEXT, APC_CMD_BACK, APC_CMD_RESET})
    /\ [][(pc_run = "send" /\ pc_run' = "recv" /\ state \in {MODE0, MODE1})
             => /\ next_apc_msg \in {APC_CMD_NEXT, APC_CMD_BACK}
                /\ wire'.bytes = next_apc_msg.bytes
                /\ wire'.bytes \in {<<254>>, <<247>>}]_vars

\* a Mode1 cycle read nothing: the slot holds the reset byte and the engine is
\* back in Init, where the slot is not what is written
C37_Witness ==
    /\ line = "full"
    /\ pc_run = "send"
    /\ state = INIT
    /\ wire.at = MODE1
    /\ next_apc_msg = APC_CMD_RESET
    /\ next_apc_msg.bytes = <<253>>

----------------------------------------------------------------------------
\* C38: the checksum create_msg_data appends depends on the first 15 bytes of the
\* frame only (id, offset, length, at most 12 payload bytes): two payloads of the
\* same length that agree on their first 12 bytes get the same appended checksum.
C38_ChecksumOfFirst15 ==
    (tc.op = "create_pair" /\ Len(tc.a) = Len(tc.b)
        /\ Slice(tc.a, 0, 12) = Slice(tc.b, 0, 12))
        => SliceFrom(tc.ra, -2) = SliceFrom(tc.rb, -2)

\* two 16-byte payloads that differ in their fourteenth byte only were framed, and
\* the frames end in the same two bytes
C38_Witness ==
    /\ tc.op = "create_pair"
    /\ Len(tc.a) = 16
    /\ Len(tc.b) = 16
    /\ tc.a[14] # tc.b[14]
    /\ Slice(tc.a, 0, 12) = Slice(tc.b, 0, 12)
    /\ tc.ra # tc.rb
    /\ SliceFrom(tc.ra, -2) = SliceFrom(tc.rb, -2)

----------------------------------------------------------------------------
\* C39: zero-sum. With (cb0, cb1) the check bytes of a fresh Fletcher after
\* update(m), a fresh Fletcher updated with m followed by cb0, cb1 ends with
\* c0 = 0 and c1 = 0.
C39_ZeroSum ==
    tc.op = "zero_sum"
        => /\ tc.f = FletcherUpdate(FletcherNew, tc.m)
           /\ f8.c0 = 0
           /\ f8.c1 = 0

\* the check bytes of a capture whose sums are not zero were appended to it, and
\* the sums of the whole are zero
C39_Witness ==
    /\ tc.op = "zero_sum"
    /\ tc.m = samples[1][1]
    /\ tc.f.c0 # 0
    /\ tc.f.c1 # 0
    /\ f8.c0 = 0
    /\ f8.c1 = 0

----------------------------------------------------------------------------
\* C40: two byte sequences of the same length that differ in exactly one byte have
\* the same check value (cb0, cb1) if and only if the two values of that byte are
\* 0x00 and 0xFF; every other substitution of one byte changes the check value.
C40_SubstitutionDetected ==
    (tc.op = "subst" /\ tc.a # tc.b)
        => /\ Len(tc.a) = Len(tc.b)
           /\ \A j \in 1..Len(tc.a) : j # tc.i => tc.a[j] = tc.b[j]
           /\ tc.ca = tc.cb <=> {tc.a[tc.i], tc.b[tc.i]} = {0, 255}

\* a capture with 0x00 in place of a byte and the same with 0xFF in its place have
\* one check value
C40_Witness ==
    /\ tc.op = "subst"
    /\ Len(tc.a) = 17
    /\ tc.a[tc.i] = 0
    /\ tc.b[tc.i] = 255
    /\ tc.ca = tc.cb

====
